---- MODULE Spec2Model ----
(***************************************************************************)
(* A model of GraphView (src/src/dear_ros_node_viewer/graph_view.py): the  *)
(* start-up sequence, the font table, the key and menu callbacks, the      *)
(* construction of the node editor from the graph, and the colour tables   *)
(* of the SVG export.                                                      *)
(*                                                                         *)
(* Node names are modelled by what the export tests of them: the set of    *)
(* component keywords the name contains.  A node is identified by its      *)
(* position in the graph's node order.  The view model (GraphViewModel) is *)
(* represented by the calls the view makes of it, logged in `trace` for    *)
(* the handler that ran last.                                              *)
(***************************************************************************)
EXTENDS Integers, Sequences, FiniteSets, TLC

VARIABLES
  phase,              \* "init" before start(), "running" in the event loop, "crashed"
  font_size,          \* GraphView.font_size
  font_list,          \* GraphView.font_list: size -> dpg font id
  dpg_window_id,      \* GraphView.dpg_window_id
  dpg_id_editor,      \* GraphView.dpg_id_editor
  dpg_id_caret_path,  \* GraphView.dpg_id_caret_path
  font_fail,          \* environment: the sizes at which dpg.add_font raises SystemError
  arch_graph,         \* environment: the graph described by the architecture file
  dpg_last_id,        \* toolkit: the last item id handed out
  dpg_fonts,          \* toolkit: font id -> size of the font item
  font_attempts,      \* the sizes dpg.add_font was called with, in order
  font_errors,        \* number of 'Failed to load font' records logged
  applied_font,       \* the font id of the last update_font call, -1 if none
  cbg_label,          \* toolkit: label of the CARET callback menu item
  cbg_last,           \* argument of the last display_callbackgroup call, "none" if none
  graph,              \* the graph held by the view model
  attrs,              \* the node attributes of the current editor, in creation order
  nodeedge,           \* the (node, label) pairs registered by add_dpg_nodeedge_idtext
  link_miss,          \* the (edge, end) lookups of add_link_in_dpg with no registration
  node_colors,        \* _cb_create_graph: node_colors
  edge_colors,        \* _cb_create_graph: edge_colors
  trace,              \* the view model calls made by the handler that ran last
  last_cb,            \* the handler that ran last
  last_arg            \* its app_data, -1 if it has none

vars == <<phase, font_size, font_list, dpg_window_id, dpg_id_editor,
          dpg_id_caret_path, font_fail, arch_graph, dpg_last_id, dpg_fonts,
          font_attempts, font_errors, applied_font, cbg_label, cbg_last, graph,
          attrs, nodeedge, link_miss, node_colors, edge_colors, trace, last_cb,
          last_arg>>

viewState == <<font_size, font_list, dpg_id_editor, dpg_window_id, dpg_id_caret_path>>

----------------------------------------------------------------------------
(* Bounds of the model *)

\* at most this many font sizes fail to load (or all of them do)
MaxFail == 1
\* nodes plus edges of an architecture graph shown in the editor
MaxSize == 4
\* nodes plus edges of a running ROS graph
MaxRosSize == 2
\* nodes plus keyword occurrences plus edges of an exported graph
MaxSvgSize == 4
\* rebuilds of the node editor after start-up
MaxRebuilds == 1

----------------------------------------------------------------------------
(* Program constants *)

DefaultFontSize == 15
FontSizeFirst == 8
FontSizeStop == 40
SliderMin == 8
SliderMax == 40
mvKey_C == 67
mvKey_L == 76
mvKey_S == 83

FontSizes == FontSizeFirst .. (FontSizeStop - 1)
SliderValues == SliderMin .. SliderMax
\* the keys pressed: the three the handler tests, and A for any other key
Keys == {mvKey_S, mvKey_L, mvKey_C, 65}

NoId == -1
NoLabel == "<no label>"
EmptyMap == [x \in {} |-> 0]

InSeq(x, s) == \E i \in 1..Len(s) : s[i] = x

----------------------------------------------------------------------------
(* _make_font_table *)

FontAcc0(last_id) ==
  [font_list |-> EmptyMap, fonts |-> EmptyMap, attempts |-> <<>>,
   errors |-> 0, last_id |-> last_id, raised |-> FALSE]

\* the loop body without its try/except: a failed load escapes the loop
TryAddFontUncaught(i, fail, acc) ==
  IF i \in fail
  THEN [acc EXCEPT !.attempts = Append(@, i), !.raised = TRUE]
  ELSE [acc EXCEPT !.attempts = Append(@, i),
                   !.last_id = @ + 1,
                   !.fonts = @ @@ ((acc.last_id + 1) :> i),
                   !.font_list = @ @@ (i :> (acc.last_id + 1))]

\* the loop body: dpg.add_font(font_path, i), a SystemError is caught and logged
TryAddFont(i, fail, acc) ==
  IF i \in fail
  THEN [acc EXCEPT !.attempts = Append(@, i), !.errors = @ + 1]
  ELSE [acc EXCEPT !.attempts = Append(@, i),
                   !.last_id = @ + 1,
                   !.fonts = @ @@ ((acc.last_id + 1) :> i),
                   !.font_list = @ @@ (i :> (acc.last_id + 1))]

RECURSIVE FontLoop(_, _, _)
FontLoop(i, fail, acc) ==
  IF i >= FontSizeStop \/ acc.raised
  THEN acc
  ELSE FontLoop(i + 1, fail, TryAddFont(i, fail, acc))

make_font_table(fail, last_id) == FontLoop(FontSizeFirst, fail, FontAcc0(last_id))

----------------------------------------------------------------------------
(* _cb_menu_font_size *)

\* the view model calls of _cb_menu_font_size(sender, size, user_data)
FontSizeCalls(size, fl) ==
  IF size \in DOMAIN fl THEN <<"update_font">> ELSE <<>>

\* the font bound afterwards
FontApplied(size, fl, prev) ==
  IF size \in DOMAIN fl THEN fl[size] ELSE prev

----------------------------------------------------------------------------
(* _cb_key_press and the menu shortcuts *)

\* add_menu_in_dpg: the menu items that advertise a shortcut, with the view
\* model call their callback makes
MenuShortcuts ==
  { [label |-> "Save", key |-> mvKey_S, calls |-> <<"save_layout">>],
    [label |-> "Load", key |-> mvKey_L, calls |-> <<"load_layout">>],
    [label |-> "Copy", key |-> mvKey_C, calls |-> <<"copy_selected_node_name">>] }

\* a key handler whose L branch saves instead of loading
KeyCallsSwapped(key) ==
  IF key = mvKey_S THEN <<"save_layout">>
  ELSE IF key = mvKey_L THEN <<"save_layout">>
  ELSE IF key = mvKey_C THEN <<"copy_selected_node_name">>
  ELSE <<>>

\* the view model calls of _cb_key_press(sender, key)
KeyCalls(key) ==
  IF key = mvKey_S THEN <<"save_layout">>
  ELSE IF key = mvKey_L THEN <<"load_layout">>
  ELSE IF key = mvKey_C THEN <<"copy_selected_node_name">>
  ELSE <<>>

----------------------------------------------------------------------------
(* add_node_attr_in_dpg, add_node_in_dpg, add_link_in_dpg, update_node_editor *)

OutLabel(e) == IF e.label # NoLabel THEN e.label ELSE "out"
InLabel(e) == IF e.label # NoLabel THEN e.label ELSE "in"

\* one iteration of the loop over graph.edges for node n; the `continue` of
\* the publisher branch ends the iteration before the subscriber branch
AttrStep(e, n, acc) ==
  LET skip == e.src = n /\ InSeq(OutLabel(e), acc.pub)
      pub1 == IF e.src = n /\ ~skip THEN Append(acc.pub, OutLabel(e)) ELSE acc.pub
      sub1 == IF ~skip /\ e.dst = n /\ ~InSeq(InLabel(e), acc.sub)
              THEN Append(acc.sub, InLabel(e))
              ELSE acc.sub
  IN [pub |-> pub1, sub |-> sub1]

RECURSIVE AttrLoop(_, _, _, _)
AttrLoop(g, n, i, acc) ==
  IF i > Len(g.edges)
  THEN acc
  ELSE AttrLoop(g, n, i + 1, AttrStep(g.edges[i], n, acc))

\* edge_list_pub and edge_list_sub of node n
EdgeLists(g, n) == AttrLoop(g, n, 1, [pub |-> <<>>, sub |-> <<>>])

\* the attributes add_node_attr_in_dpg creates for node n: inputs, then outputs
NodeAttrs(g, n) ==
  LET l == EdgeLists(g, n)
  IN [i \in 1..Len(l.sub) |-> [node |-> n, kind |-> "in", label |-> l.sub[i]]]
     \o [i \in 1..Len(l.pub) |-> [node |-> n, kind |-> "out", label |-> l.pub[i]]]

\* add_node_attr_in_dpg without its last statement
NodeAttrCallsNoHide(n) == <<>>

\* the view model calls that end add_node_attr_in_dpg: 'Hide by default'
NodeAttrCalls(n) == <<"display_callbackgroup(False)">>

RECURSIVE AddNodes(_, _, _)
AddNodes(g, n, acc) ==
  IF n > Len(g.nodes)
  THEN [acc EXCEPT !.calls = @ \o <<"update_nodename", "update_edgename">>]
  ELSE AddNodes(g, n + 1,
                [attrs |-> acc.attrs \o NodeAttrs(g, n),
                 calls |-> acc.calls \o NodeAttrCalls(n)])

\* add_node_in_dpg: the attributes created and the view model calls made
add_node_in_dpg(g) == AddNodes(g, 1, [attrs |-> <<>>, calls |-> <<>>])

\* the (node, label) pairs add_dpg_nodeedge_idtext was called with
Registered(as) == {<<as[i].node, as[i].label>> : i \in 1..Len(as)}

\* add_link_in_dpg: the get_dpg_nodeedge_id lookups of no registered pair
LinkMisses(g, reg) ==
  {<<j, "src">> : j \in {i \in 1..Len(g.edges) :
                           <<g.edges[i].src, OutLabel(g.edges[i])>> \notin reg}}
  \cup
  {<<j, "dst">> : j \in {i \in 1..Len(g.edges) :
                           <<g.edges[i].dst, InLabel(g.edges[i])>> \notin reg}}

update_node_editor(g) ==
  LET nd == add_node_in_dpg(g)
      reg == Registered(nd.attrs)
  IN [attrs |-> nd.attrs,
      nodeedge |-> reg,
      link_miss |-> LinkMisses(g, reg),
      calls |-> nd.calls \o <<"load_layout">>]

\* the argument of the last display_callbackgroup call after the calls of tr
RECURSIVE LastDisplay(_, _)
LastDisplay(tr, prev) ==
  IF tr = <<>> THEN prev
  ELSE IF tr[Len(tr)] = "display_callbackgroup(False)" THEN "False"
  ELSE IF tr[Len(tr)] = "display_callbackgroup(True)" THEN "True"
  ELSE LastDisplay(SubSeq(tr, 1, Len(tr) - 1), prev)

----------------------------------------------------------------------------
(* _cb_create_graph: node types and the colour tables *)

Keywords == {"planning", "perception", "sensing", "localization", "system", "control"}

\* the node_type the marking loops leave on a node: the topic dictionaries
\* first, the node name list last
NodeType(nd) == IF nd.in_nodes THEN "node" ELSE "topic"

\* the if/elif chain over the component keywords; kws: those the name contains
ComponentColor(kws) ==
  IF "planning" \in kws THEN "lightcoral"
  ELSE IF "perception" \in kws THEN "lightgreen"
  ELSE IF "sensing" \in kws THEN "lightblue"
  ELSE IF "localization" \in kws THEN "khaki"
  ELSE IF "system" \in kws THEN "plum"
  ELSE IF "control" \in kws THEN "paleturquoise"
  ELSE "silver"

\* the colour appended to node_colors for one node
NodeColor(nd) ==
  IF NodeType(nd) = "node" THEN ComponentColor(nd.kws) ELSE "gainsboro"

RECURSIVE NodeColorLoop(_, _, _)
NodeColorLoop(g, i, acc) ==
  IF i > Len(g.nodes)
  THEN acc
  ELSE NodeColorLoop(g, i + 1, Append(acc, NodeColor(g.nodes[i])))

\* an edge coloured after its subscribing node
EdgeColorOfSubscriber(g, e) ==
  IF e.bind = "theme" THEN "theme_rgb"
  ELSE IF e.bind = "other" THEN "grey128"
  ELSE NodeColor(g.nodes[e.dst])

\* the colour appended to edge_colors for one edge; bind: whether
\* dpg_bind['edge_color'] holds the edge's key, and a theme colour under it
EdgeColor(g, e) ==
  IF e.bind = "theme" THEN "theme_rgb"
  ELSE IF e.bind = "other" THEN "grey128"
  ELSE NodeColor(g.nodes[e.src])

RECURSIVE EdgeColorLoop(_, _, _)
EdgeColorLoop(g, i, acc) ==
  IF i > Len(g.edges)
  THEN acc
  ELSE EdgeColorLoop(g, i + 1, Append(acc, EdgeColor(g, g.edges[i])))

----------------------------------------------------------------------------
(* The graphs and font failures the model ranges over *)

\* graph.edges of a MultiDiGraph iterates by source in node order, then by
\* target, parallel edges together; edge_color is keyed by (source, target)
SamePair(a, b) == a.src = b.src /\ a.dst = b.dst

EdgeOrderOK(es) ==
  /\ \A i \in 1..(Len(es) - 1) : es[i].src <= es[i + 1].src
  /\ \A i, j, k \in 1..Len(es) :
       (i < j /\ j < k /\ SamePair(es[i], es[k])) => SamePair(es[i], es[j])
  /\ \A i, j \in 1..Len(es) : SamePair(es[i], es[j]) => es[i].bind = es[j].bind

EdgeRecs(n, labels, binds) ==
  [src : 1..n, dst : 1..n, label : labels, bind : binds]

EdgeSeqs(n, e, labels, binds) ==
  {es \in [1..e -> EdgeRecs(n, labels, binds)] : EdgeOrderOK(es)}

PlainNode == [kws |-> {}, in_topics |-> FALSE, in_nodes |-> TRUE]

\* graphs of n plain nodes and e edges, labelled "t1" or unlabelled
PlainGraphs(n, e) ==
  {[nodes |-> [i \in 1..n |-> PlainNode], edges |-> es] :
     es \in EdgeSeqs(n, e, {NoLabel, "t1"}, {"none"})}

GraphsUpTo(size) ==
  UNION {PlainGraphs(s[1], s[2]) :
           s \in {t \in (0..size) \X (0..size) :
                    t[1] + t[2] <= size /\ (t[1] = 0 => t[2] = 0)}}

EditorGraphs == GraphsUpTo(MaxSize)
RosGraphs == GraphsUpTo(MaxRosSize)

\* nodes parse_all_graph lists as a node, a topic or both, with at most k keywords
NodeKinds(k) ==
  {nd \in [kws : {s \in SUBSET Keywords : Cardinality(s) = k},
           in_topics : BOOLEAN, in_nodes : BOOLEAN] :
     nd.in_topics \/ nd.in_nodes}

\* sequences of n nodes whose names contain k keywords in all
RECURSIVE NodeSeqs(_, _)
NodeSeqs(n, k) ==
  IF n = 0
  THEN IF k = 0 THEN {<<>>} ELSE {}
  ELSE UNION {{Append(ns, nd) : ns \in NodeSeqs(n - 1, k - j), nd \in NodeKinds(j)} :
                j \in 0..k}

SvgGraphsOf(n, k, e) ==
  {[nodes |-> ns, edges |-> es] :
     ns \in NodeSeqs(n, k),
     es \in EdgeSeqs(n, e, {NoLabel}, {"none", "theme", "other"})}

\* the (nodes, keywords, edges) sizes of the exported graphs
SvgSizes ==
  {t \in (0..MaxSvgSize) \X (0..MaxSvgSize) \X (0..MaxSvgSize) :
     /\ t[1] + t[2] + t[3] <= MaxSvgSize
     /\ (t[1] = 0 => (t[2] = 0 /\ t[3] = 0))}

EmptyGraph == [nodes |-> <<>>, edges |-> <<>>]
OneNodeGraph == [nodes |-> <<PlainNode>>, edges |-> <<>>]

\* sets of at most k failing sizes
RECURSIVE FailSetsUpTo(_)
FailSetsUpTo(k) ==
  IF k = 0 THEN {{}}
  ELSE LET less == FailSetsUpTo(k - 1)
       IN less \cup {s \cup {x} : s \in less, x \in FontSizes}

\* a few sizes fail, or the font file loads at no size
FailSets == FailSetsUpTo(MaxFail) \cup {FontSizes}

----------------------------------------------------------------------------
(* State after GraphView.__init__ *)

InitWith(fails, graphs) ==
  /\ phase = "init"
  /\ font_size = DefaultFontSize
  /\ font_list = EmptyMap
  /\ dpg_window_id = NoId
  /\ dpg_id_editor = NoId
  /\ dpg_id_caret_path = NoId
  /\ font_fail \in fails
  /\ arch_graph \in graphs
  /\ dpg_last_id = 0
  /\ dpg_fonts = EmptyMap
  /\ font_attempts = <<>>
  /\ font_errors = 0
  /\ applied_font = NoId
  /\ cbg_label = "Show Callback"
  /\ cbg_last = "none"
  /\ graph = EmptyGraph
  /\ attrs = <<>>
  /\ nodeedge = {}
  /\ link_miss = {}
  /\ node_colors = <<>>
  /\ edge_colors = <<>>
  /\ trace = <<>>
  /\ last_cb = "none"
  /\ last_arg = -1

Init == InitWith({{}}, EditorGraphs)
InitFont == InitWith(FailSets, {OneNodeGraph})
InitSvg == \E t \in SvgSizes : InitWith({{}}, SvgGraphsOf(t[1], t[2], t[3]))

----------------------------------------------------------------------------
(* The operations *)

Rebuilds == dpg_last_id - (dpg_id_caret_path + 1)

\* start(): the font table, the window and its menu, the graph of the
\* architecture file in a first node editor, the default zoom and font
Start ==
  /\ phase = "init"
  /\ \E ft \in {make_font_table(font_fail, dpg_last_id)},
        ed \in {update_node_editor(arch_graph)} :
     LET calls == <<"load_graph">> \o ed.calls \o <<"zoom_inout">>
                    \o FontSizeCalls(font_size, ft.font_list)
     IN /\ font_list' = ft.font_list
        /\ dpg_fonts' = ft.fonts
        /\ font_attempts' = ft.attempts
        /\ font_errors' = ft.errors
        /\ IF ft.raised
           THEN /\ phase' = "crashed"
                /\ dpg_last_id' = ft.last_id
                /\ trace' = <<>>
                /\ UNCHANGED <<dpg_window_id, dpg_id_caret_path, dpg_id_editor, graph,
                               attrs, nodeedge, link_miss, cbg_last, applied_font>>
           ELSE /\ phase' = "running"
                /\ dpg_window_id' = ft.last_id + 1
                /\ dpg_id_caret_path' = ft.last_id + 2
                /\ dpg_id_editor' = ft.last_id + 3
                /\ dpg_last_id' = ft.last_id + 3
                /\ graph' = arch_graph
                /\ attrs' = ed.attrs
                /\ nodeedge' = ed.nodeedge
                /\ link_miss' = ed.link_miss
                /\ cbg_last' = LastDisplay(calls, cbg_last)
                /\ applied_font' = FontApplied(font_size, ft.font_list, applied_font)
                /\ trace' = calls
  /\ last_cb' = "start"
  /\ last_arg' = -1
  /\ UNCHANGED <<font_size, font_fail, arch_graph, cbg_label, node_colors, edge_colors>>

\* _cb_key_press(sender, key)
CbKeyPress ==
  /\ phase = "running"
  /\ \E key \in Keys :
       /\ trace' = KeyCalls(key)
       /\ last_arg' = key
  /\ last_cb' = "_cb_key_press"
  /\ UNCHANGED <<phase, font_size, font_list, dpg_window_id, dpg_id_editor,
                 dpg_id_caret_path, font_fail, arch_graph, dpg_last_id, dpg_fonts,
                 font_attempts, font_errors, applied_font, cbg_label, cbg_last,
                 graph, attrs, nodeedge, link_miss, node_colors, edge_colors>>

\* _cb_menu_font_size(sender, size, user_data), called by the 'Font Size' slider
CbMenuFontSize ==
  /\ phase = "running"
  /\ \E size \in SliderValues :
       /\ font_size' = size
       /\ trace' = FontSizeCalls(size, font_list)
       /\ applied_font' = FontApplied(size, font_list, applied_font)
       /\ last_arg' = size
  /\ last_cb' = "_cb_menu_font_size"
  /\ UNCHANGED <<phase, font_list, dpg_window_id, dpg_id_editor, dpg_id_caret_path,
                 font_fail, arch_graph, dpg_last_id, dpg_fonts, font_attempts,
                 font_errors, cbg_label, cbg_last, graph, attrs, nodeedge,
                 link_miss, node_colors, edge_colors>>

\* _cb_menu_caret_callbackbroup(sender, app_data, user_data)
CbMenuCaretCallbackgroup ==
  /\ phase = "running"
  /\ IF cbg_label = "Show Callback"
     THEN /\ trace' = <<"display_callbackgroup(True)">>
          /\ cbg_label' = "Hide Callback"
     ELSE /\ trace' = <<"display_callbackgroup(False)">>
          /\ cbg_label' = "Show Callback"
  /\ cbg_last' = LastDisplay(trace', cbg_last)
  /\ last_cb' = "_cb_menu_caret_callbackbroup"
  /\ last_arg' = -1
  /\ UNCHANGED <<phase, font_size, font_list, dpg_window_id, dpg_id_editor,
                 dpg_id_caret_path, font_fail, arch_graph, dpg_last_id, dpg_fonts,
                 font_attempts, font_errors, applied_font, graph, attrs, nodeedge,
                 link_miss, node_colors, edge_colors>>

\* _cb_menu_graph_current(): the running ROS graph in a new node editor
CbMenuGraphCurrent ==
  /\ phase = "running"
  /\ Rebuilds < MaxRebuilds
  /\ \E g \in RosGraphs :
       \E ed \in {update_node_editor(g)} :
       LET calls == <<"load_running_graph">> \o ed.calls
       IN /\ graph' = g
          /\ attrs' = ed.attrs
          /\ nodeedge' = ed.nodeedge
          /\ link_miss' = ed.link_miss
          /\ cbg_last' = LastDisplay(calls, cbg_last)
          /\ trace' = calls
  /\ dpg_id_editor' = dpg_last_id + 1
  /\ dpg_last_id' = dpg_last_id + 1
  /\ last_cb' = "_cb_menu_graph_current"
  /\ last_arg' = -1
  /\ UNCHANGED <<phase, font_size, font_list, dpg_window_id, dpg_id_caret_path,
                 font_fail, arch_graph, dpg_fonts, font_attempts, font_errors,
                 applied_font, cbg_label, node_colors, edge_colors>>

\* _cb_create_graph(graph_type, output): the architecture file reloaded into a
\* new node editor, then the colour tables of the drawing
CbCreateGraph ==
  /\ phase = "running"
  /\ Rebuilds < MaxRebuilds
  /\ \E ed \in {update_node_editor(arch_graph)} :
     LET calls == <<"load_graph">> \o ed.calls \o <<"get_graph">>
     IN /\ graph' = arch_graph
        /\ attrs' = ed.attrs
        /\ nodeedge' = ed.nodeedge
        /\ link_miss' = ed.link_miss
        /\ cbg_last' = LastDisplay(calls, cbg_last)
        /\ trace' = calls
  /\ node_colors' = NodeColorLoop(arch_graph, 1, <<>>)
  /\ edge_colors' = EdgeColorLoop(arch_graph, 1, <<>>)
  /\ dpg_id_editor' = dpg_last_id + 1
  /\ dpg_last_id' = dpg_last_id + 1
  /\ last_cb' = "_cb_create_graph"
  /\ last_arg' = -1
  /\ UNCHANGED <<phase, font_size, font_list, dpg_window_id, dpg_id_caret_path,
                 font_fail, arch_graph, dpg_fonts, font_attempts, font_errors,
                 applied_font, cbg_label>>

----------------------------------------------------------------------------
(* Specifications *)

\* the node editor: architecture graphs, the callback toggle, graph reloads
Next ==
  \/ Start
  \/ CbMenuCaretCallbackgroup
  \/ CbMenuGraphCurrent
  \/ CbCreateGraph

Spec == Init /\ [][Next]_vars

\* the font table under load failures, the font slider and the keyboard
NextFont ==
  \/ Start
  \/ CbMenuFontSize
  \/ CbKeyPress

SpecFont == InitFont /\ [][NextFont]_vars

\* the SVG export of graphs with component names, topics and bound edges
NextSvg ==
  \/ Start
  \/ CbCreateGraph

SpecSvg == InitSvg /\ [][NextSvg]_vars

----------------------------------------------------------------------------
(* Claims *)

\* C1: a SystemError raised while loading the font of any size is caught and
\* logged: every size from 8 to 39 is still attempted, start-up reaches the
\* event loop, font_list holds exactly the sizes that loaded, and a later
\* _cb_menu_font_size with a size that has no entry in font_list records the
\* size, calls no font update and raises nothing.
C1_FontLoadErrorCaught ==
  phase # "init" =>
    /\ phase = "running"
    /\ font_attempts = [i \in 1..(FontSizeStop - FontSizeFirst) |-> FontSizeFirst + i - 1]
    /\ font_errors = Cardinality(font_fail)
    /\ DOMAIN font_list = FontSizes \ font_fail
    /\ (last_cb = "_cb_menu_font_size" /\ last_arg \notin DOMAIN font_list)
         => (font_size = last_arg /\ ~InSeq("update_font", trace))

\* C1 witness: some size failed to load, the event loop runs, and the slider
\* delivered a failed size, which was recorded without a font update
C1_Witness ==
  /\ phase = "running"
  /\ font_fail # {}
  /\ last_cb = "_cb_menu_font_size"
  /\ last_arg \in font_fail
  /\ font_size = last_arg
  /\ trace = <<>>

\* the view model calls the menu advertises for a key
ShortcutCalls(key) ==
  IF \E m \in MenuShortcuts : m.key = key
  THEN (CHOOSE m \in MenuShortcuts : m.key = key).calls
  ELSE <<>>

\* C2: a key press makes exactly the call of the menu item that advertises the
\* key as its shortcut, once (S: save layout, L: load layout, C: copy the
\* selected node name), makes no call for any other key, and never changes
\* font_size, font_list, dpg_id_editor, dpg_window_id or dpg_id_caret_path.
C2_KeyShortcuts ==
  [][last_cb' = "_cb_key_press" =>
       (trace' = ShortcutCalls(last_arg') /\ viewState' = viewState)]_vars

\* C2 witness: L was pressed and load_layout was called once
C2_Witness ==
  /\ last_cb = "_cb_key_press"
  /\ last_arg = mvKey_L
  /\ trace = <<"load_layout">>

\* C3: after every handler that calls update_node_editor (start, 'Load Current
\* Gaph', the SVG export) on a graph with at least one node, the last
\* display_callbackgroup call made is display_callbackgroup(False).
C3_CallbackGroupHidden ==
  (/\ phase = "running"
   /\ last_cb \in {"start", "_cb_menu_graph_current", "_cb_create_graph"}
   /\ Len(graph.nodes) >= 1)
    => cbg_last = "False"

\* C3 witness: the user had switched the callback groups on (the menu item
\* reads 'Hide Callback') before the running graph, of at least one node, was
\* loaded into a new editor
C3_Witness ==
  /\ last_cb = "_cb_menu_graph_current"
  /\ cbg_label = "Hide Callback"
  /\ Len(graph.nodes) >= 1
  /\ cbg_last = "False"

\* C4: when every font loads, after _cb_menu_font_size with any slider value
\* (8 to 40) the font registered for that size has been applied: font_size is
\* the size of the font applied.
C4_FontSizeAppliesFont ==
  (phase = "running" /\ font_fail = {} /\ last_cb = "_cb_menu_font_size")
    => /\ InSeq("update_font", trace)
       /\ applied_font \in DOMAIN dpg_fonts
       /\ dpg_fonts[applied_font] = font_size

InLabels(g, n) == {InLabel(g.edges[i]) : i \in {j \in 1..Len(g.edges) : g.edges[j].dst = n}}
OutLabels(g, n) == {OutLabel(g.edges[i]) : i \in {j \in 1..Len(g.edges) : g.edges[j].src = n}}
AttrsOf(n, kind) == {i \in 1..Len(attrs) : attrs[i].node = n /\ attrs[i].kind = kind}

\* C5: every node has exactly one input attribute per distinct label among the
\* edges entering it and one output attribute per distinct label among the
\* edges leaving it (an unlabelled edge counting as 'in' and 'out'), and
\* add_link_in_dpg finds a registered attribute for both ends of every edge.
C5_OneAttributePerLabel ==
  phase = "running" =>
    /\ \A n \in 1..Len(graph.nodes) :
         /\ {attrs[i].label : i \in AttrsOf(n, "in")} = InLabels(graph, n)
         /\ Cardinality(AttrsOf(n, "in")) = Cardinality(InLabels(graph, n))
         /\ {attrs[i].label : i \in AttrsOf(n, "out")} = OutLabels(graph, n)
         /\ Cardinality(AttrsOf(n, "out")) = Cardinality(OutLabels(graph, n))
    /\ link_miss = {}

KeywordOrder == <<"planning", "perception", "sensing", "localization", "system", "control">>
KeywordColour == <<"lightcoral", "lightgreen", "lightblue", "khaki", "plum", "paleturquoise">>

\* the colour of the first keyword, in testing order, among kws; silver if none
FirstKeywordColour(kws) ==
  IF \E i \in 1..Len(KeywordOrder) : KeywordOrder[i] \in kws
  THEN KeywordColour[CHOOSE i \in 1..Len(KeywordOrder) :
                       /\ KeywordOrder[i] \in kws
                       /\ \A j \in 1..(i - 1) : KeywordOrder[j] \notin kws]
  ELSE "silver"

ColourRule(nd) ==
  IF nd.in_nodes THEN FirstKeywordColour(nd.kws) ELSE "gainsboro"

====
